---- MODULE Spec2Model ----
(***************************************************************************)
(* Production-planning analyzer (src/app.py): the two file parsers         *)
(* (process_historical_file, process_target_file), the Generate step of    *)
(* the session, i.e. filter_historical_by_month, map_categories_to_brands  *)
(* and predict_sku_distribution applied to the stored historical table and *)
(* the stored category targets, and the brand analysis table of            *)
(* display_insights_section.                                               *)
(*                                                                         *)
(* Text the code inspects character by character (sheet cells, category    *)
(* names, brand codes) is a sequence of one-character strings.  Text the   *)
(* code only compares and sorts (item codes, item names, date cells) is a  *)
(* TLA+ string.  Tonnages and targets are integers (tons) and every quotient    *)
(* the code forms is an exact fraction <<numerator, denominator>> in       *)
(* lowest terms, so the arithmetic is the real arithmetic the floats of    *)
(* the code approximate.                                                   *)
(***************************************************************************)
EXTENDS Integers, Sequences, FiniteSets, TLC

VARIABLES historical_df, category_targets, filtered_historical,
          brand_targets_agg, brand_sku_percentages, predictions, message,
          historical_file, header_pos, historical_message,
          target_file, target_cols, target_message, brand_data,
          openai_env, ai_insights, analysis_data, insights_message

vars == <<historical_df, category_targets, filtered_historical,
          brand_targets_agg, brand_sku_percentages, predictions, message,
          historical_file, header_pos, historical_message,
          target_file, target_cols, target_message, brand_data,
          openai_env, ai_insights, analysis_data, insights_message>>

(***************************************************************************)
(* Bounds of the model.                                                    *)
(***************************************************************************)
MaxWords == 3
MaxCats == 2
MaxRows == 2

(***************************************************************************)
(* Python's None, and a value that is not None.                            *)
(***************************************************************************)
None == <<>>
Some(v) == <<v>>
IsSome(x) == x # None
Val(x) == x[1]

(***************************************************************************)
(* Text: str.lower, str.upper, str.strip, str.replace, `in`.               *)
(***************************************************************************)
UpperCase == <<"A","B","C","D","E","F","G","H","I","J","K","L","M",
               "N","O","P","Q","R","S","T","U","V","W","X","Y","Z">>
LowerCase == <<"a","b","c","d","e","f","g","h","i","j","k","l","m",
               "n","o","p","q","r","s","t","u","v","w","x","y","z">>

\* the letter tables, each letter paired with its other case
LowerTable ==
    [c \in { UpperCase[i] : i \in 1..Len(UpperCase) } |->
        LowerCase[CHOOSE i \in 1..Len(UpperCase) : UpperCase[i] = c]]
UpperTable ==
    [c \in { LowerCase[i] : i \in 1..Len(LowerCase) } |->
        UpperCase[CHOOSE i \in 1..Len(LowerCase) : LowerCase[i] = c]]

LowerChar(c) == IF c \in DOMAIN LowerTable THEN LowerTable[c] ELSE c

UpperChar(c) == IF c \in DOMAIN UpperTable THEN UpperTable[c] ELSE c

Lower(s) == [i \in 1..Len(s) |-> LowerChar(s[i])]
Upper(s) == [i \in 1..Len(s) |-> UpperChar(s[i])]

RECURSIVE Strip(_)
Strip(s) ==
    IF s = <<>> THEN s
    ELSE IF Head(s) = " " THEN Strip(Tail(s))
    ELSE IF s[Len(s)] = " " THEN Strip(SubSeq(s, 1, Len(s) - 1))
    ELSE s

ReplaceChar(s, old, new) == [i \in 1..Len(s) |-> IF s[i] = old THEN new ELSE s[i]]

\* needle in hay
Contains(hay, needle) ==
    \E i \in 1..(Len(hay) - Len(needle) + 1) :
        SubSeq(hay, i, i + Len(needle) - 1) = needle

(***************************************************************************)
(* Exact fractions.                                                        *)
(***************************************************************************)
RECURSIVE GCD(_, _)
GCD(a, b) == IF b = 0 THEN a ELSE GCD(b, a % b)

Abs(n) == IF n < 0 THEN -n ELSE n

\* n / d, d > 0, in lowest terms
Frac(n, d) ==
    LET g == GCD(Abs(n), d)
    IN  <<n \div g, d \div g>>

FracOfInt(n) == <<n, 1>>
FracMul(n, q) == Frac(n * q[1], q[2])
FracAdd(p, q) ==
    LET l == (p[2] \div GCD(p[2], q[2])) * q[2]
    IN  Frac(p[1] * (l \div p[2]) + q[1] * (l \div q[2]), l)
FracGE(p, q) == p[1] * q[2] >= q[1] * p[2]


(***************************************************************************)
(* Tokens map_categories_to_brands looks for, and the brand codes it       *)
(* assigns.                                                                *)
(***************************************************************************)
T_mfg == <<"m","f","g">>
T_scg == <<"s","c","g">>
T_mizu == <<"m","i","z","u">>
T_icon == <<"i","c","o","n">>
T_micon == <<"m","i","c","o","n">>
T_pipe == <<"p","i","p","e">>
T_conduit == <<"c","o","n","d","u","i","t">>
T_fitting == <<"f","i","t","t","i","n","g">>
T_valve == <<"v","a","l","v","e">>

SCG_PI == <<"S","C","G","-","P","I">>
SCG_FT == <<"S","C","G","-","F","T">>
SCG_BV == <<"S","C","G","-","B","V">>
MIZU_PI == <<"M","I","Z","U","-","P","I">>
MIZU_FT == <<"M","I","Z","U","-","F","T">>
ICON_PI == <<"I","C","O","N","-","P","I">>

(***************************************************************************)
(* Inputs: category names are words joined by single spaces.               *)
(***************************************************************************)
Words == { <<"M","F","G">>,
           <<"M","f","g">>,
           <<"T","r","a","d","i","n","g">>,
           <<"S","C","G">>,
           <<"M","i","z","u">>,
           <<"M","i","c","o","n">>,
           <<"P","i","p","e">>,
           <<"C","o","n","d","u","i","t">>,
           <<"F","i","t","t","i","n","g">>,
           <<"V","a","l","v","e">>,
           <<"(","L","o","c","a","l",")">> }

RECURSIVE JoinWords(_)
JoinWords(ws) ==
    IF Len(ws) = 1 THEN ws[1]
    ELSE ws[1] \o <<" ">> \o JoinWords(Tail(ws))

\* sequences of 1..n distinct elements of S
InjectiveSeqs(S, n) ==
    UNION { { s \in [1..k -> S] : \A i, j \in 1..k : i # j => s[i] # s[j] } : k \in 1..n }

CategoryNames == { JoinWords(ws) : ws \in InjectiveSeqs(Words, MaxWords) }

(***************************************************************************)
(* A historical table (DataFrame): its rows in index order, and whether it *)
(* has a column named "Date" beside the four required ones.  A row is      *)
(* [BRANDPRODUCT, ItemCode, ItemName, TON, Date]; Date is "" when the      *)
(* table has no such column.                                               *)
(***************************************************************************)
RECURSIVE SumTON(_)
SumTON(rows) ==
    IF rows = <<>> THEN 0 ELSE Head(rows).TON + SumTON(Tail(rows))

Empty(df) == df.rows = <<>>

(***************************************************************************)
(* map_categories_to_brands                                                *)
(***************************************************************************)
\* a summary that takes each brand's largest row for its total
HistoricalSummaryMax(df) ==
    IF Empty(df) THEN <<>>
    ELSE LET brands == { df.rows[i].BRANDPRODUCT : i \in 1..Len(df.rows) }
             Largest(b) == CHOOSE t \in { df.rows[i].TON : i \in 1..Len(df.rows) } :
                               /\ \E i \in 1..Len(df.rows) :
                                      df.rows[i].BRANDPRODUCT = b /\ df.rows[i].TON = t
                               /\ \A i \in 1..Len(df.rows) :
                                      df.rows[i].BRANDPRODUCT = b => df.rows[i].TON <= t
         IN  [b \in brands |-> Largest(b)]

\* historical_df.groupby('BRANDPRODUCT')['TON'].sum().to_dict()
HistoricalSummary(df) ==
    IF Empty(df) THEN <<>>
    ELSE LET brands == { df.rows[i].BRANDPRODUCT : i \in 1..Len(df.rows) }
             OfBrand(b) == LET Is(r) == r.BRANDPRODUCT = b IN SelectSeq(df.rows, Is)
         IN  [b \in brands |-> SumTON(OfBrand(b))]

\* mutant: the marker looked for in the text as written, 'MFG' in category
IsMfgCaseSensitive(category) == Contains(category, <<"M","F","G">>)

\* mutant: a brand token counts as the marker too
IsMfgOrBrand(category) ==
    \/ Contains(Strip(Lower(category)), T_mfg)
    \/ Contains(Strip(Lower(category)), T_scg)

\* 'mfg' in cat_lower
IsMfg(category) == Contains(Strip(Lower(category)), T_mfg)

\* the final else: category.replace(' ', '-').upper()
FallbackBrand(category) == Upper(ReplaceChar(category, " ", "-"))

\* the chain on 'scg'
ScgBrand(cat_lower) ==
    IF Contains(cat_lower, T_pipe) \/ Contains(cat_lower, T_conduit) THEN SCG_PI
    ELSE IF Contains(cat_lower, T_fitting) THEN SCG_FT
    ELSE IF Contains(cat_lower, T_valve) THEN SCG_BV
    ELSE SCG_PI

\* the chain on 'mizu'
MizuBrand(cat_lower) ==
    IF Contains(cat_lower, T_fitting) THEN MIZU_FT ELSE MIZU_PI

\* mutant: the chain on 'mizu' tried before the chain on 'scg'
MatchingBrandMizuFirst(category) ==
    LET cat_lower == Strip(Lower(category))
    IN  IF Contains(cat_lower, T_mizu) THEN MizuBrand(cat_lower)
        ELSE IF Contains(cat_lower, T_scg) THEN ScgBrand(cat_lower)
        ELSE IF Contains(cat_lower, T_icon) \/ Contains(cat_lower, T_micon) THEN ICON_PI
        ELSE IF Contains(cat_lower, T_pipe) THEN SCG_PI
        ELSE IF Contains(cat_lower, T_fitting) THEN SCG_FT
        ELSE IF Contains(cat_lower, T_valve) THEN SCG_BV
        ELSE FallbackBrand(category)

\* "Determine brand"
MatchingBrand(category) ==
    LET cat_lower == Strip(Lower(category))
    IN  IF Contains(cat_lower, T_scg) THEN ScgBrand(cat_lower)
        ELSE IF Contains(cat_lower, T_mizu) THEN MizuBrand(cat_lower)
        ELSE IF Contains(cat_lower, T_icon) \/ Contains(cat_lower, T_micon) THEN ICON_PI
        ELSE IF Contains(cat_lower, T_pipe) THEN SCG_PI
        ELSE IF Contains(cat_lower, T_fitting) THEN SCG_FT
        ELSE IF Contains(cat_lower, T_valve) THEN SCG_BV
        ELSE FallbackBrand(category)

\* dict.get(key, default)
Get(d, key, default) == IF key \in DOMAIN d THEN d[key] ELSE default

\* the brand's accumulator on first encounter
NewBrandTarget(historical_tonnage) ==
    [mayTarget |-> 0, w1Target |-> 0, categories |-> <<>>,
     historicalTonnage |-> historical_tonnage]

\* mutant: the targets assigned, not added
AccumulateOverwrite(acc, item) ==
    [acc EXCEPT !.mayTarget = item.mayTarget,
                !.w1Target = item.w1Target,
                !.categories = Append(@, item.Category)]

\* mayTarget += ..., w1Target += ..., categories.append(category)
Accumulate(acc, item) ==
    [acc EXCEPT !.mayTarget = @ + item.mayTarget,
                !.w1Target = @ + item.w1Target,
                !.categories = Append(@, item.Category)]

\* an iteration that maps every category, with or without the marker
MapCategoryUnfiltered(agg, item, historical_summary) ==
    LET matching_brand == MatchingBrand(item.Category)
        historical_tonnage == Get(historical_summary, matching_brand, 0)
        acc == Get(agg, matching_brand, NewBrandTarget(historical_tonnage))
    IN  (matching_brand :> Accumulate(acc, item)) @@ agg

\* one iteration of the loop over category_targets.items()
MapCategory(agg, item, historical_summary) ==
    IF ~IsMfg(item.Category) THEN agg
    ELSE LET matching_brand == MatchingBrand(item.Category)
             historical_tonnage == Get(historical_summary, matching_brand, 0)
             acc == Get(agg, matching_brand, NewBrandTarget(historical_tonnage))
         IN  (matching_brand :> Accumulate(acc, item)) @@ agg

RECURSIVE MapLoop(_, _, _)
MapLoop(agg, items, historical_summary) ==
    IF items = <<>> THEN agg
    ELSE MapLoop(MapCategory(agg, Head(items), historical_summary),
                 Tail(items), historical_summary)

\* category_targets: the items of the dict in insertion order, each
\* [Category, mayTarget, w1Target]; the result is brand_targets_agg
map_categories_to_brands(targets, df) ==
    MapLoop(<<>>, targets, HistoricalSummary(df))

(***************************************************************************)
(* filter_historical_by_month(historical_df, "May")                        *)
(***************************************************************************)
\* a conversion that cannot read the Timestamps it has written
ToDatetimeOnce(cell) ==
    CASE cell = "2024-04-10" -> "Timestamp(2024-04-10)"
      [] cell = "2024-05-10" -> "Timestamp(2024-05-10)"
      [] OTHER -> "NaT"

\* pd.to_datetime(cell, errors='coerce'): a parsed cell is a Timestamp, an
\* unparseable one is NaT, a Timestamp stays what it is
ToDatetime(cell) ==
    CASE cell = "2024-04-10" -> "Timestamp(2024-04-10)"
      [] cell = "2024-05-10" -> "Timestamp(2024-05-10)"
      [] cell \in {"Timestamp(2024-04-10)", "Timestamp(2024-05-10)"} -> cell
      [] OTHER -> "NaT"

\* Series.dt.month (0 stands for the NaN of a NaT)
MonthOf(ts) ==
    CASE ts = "Timestamp(2024-04-10)" -> 4
      [] ts = "Timestamp(2024-05-10)" -> 5
      [] OTHER -> 0

MonthNumber == 5

\* historical_df[date_col] = pd.to_datetime(...): the table passed in is
\* changed in place
ConvertDates(df) ==
    IF df.dateCol
    THEN [df EXCEPT !.rows = [i \in 1..Len(df.rows) |->
                                 [df.rows[i] EXCEPT !.Date = ToDatetime(@)]]]
    ELSE df

\* the table the caller holds after the call
HistoricalAfterFilter(df) == IF Empty(df) THEN df ELSE ConvertDates(df)

\* the table returned
filter_historical_by_month(df) ==
    IF Empty(df) THEN df
    ELSE LET converted == ConvertDates(df)
             InMonth(r) == MonthOf(r.Date) = MonthNumber
             filtered_df == SelectSeq(converted.rows, InMonth)
         IN  IF df.dateCol /\ Len(filtered_df) > 0
             THEN [converted EXCEPT !.rows = filtered_df]
             ELSE converted

(***************************************************************************)
(* predict_sku_distribution                                                *)
(***************************************************************************)
\* every opaque string of the model, in Python's string order
SortedStrings == <<"", "2024-04-10", "2024-05-10", "A1", "A2", "NaT",
                   "Pipe 1in", "Pipe 2in",
                   "Timestamp(2024-04-10)", "Timestamp(2024-05-10)">>

StrRank(s) == CHOOSE i \in 1..Len(SortedStrings) : SortedStrings[i] = s

\* (code, name) < (code, name), as groupby sorts its keys
KeyLess(k1, k2) ==
    \/ StrRank(k1[1]) < StrRank(k2[1])
    \/ k1[1] = k2[1] /\ StrRank(k1[2]) < StrRank(k2[2])

RECURSIVE SortKeys(_)
SortKeys(keys) ==
    IF keys = {} THEN <<>>
    ELSE LET least == CHOOSE k \in keys : \A o \in keys \ {k} : KeyLess(k, o)
         IN  <<least>> \o SortKeys(keys \ {least})

\* the rows of groupby(['BRANDPRODUCT','Item Code','Item Name'])['TON'].sum()
\* that belong to one brand, in key order
BrandSkuTonnage(df, brand) ==
    LET OfBrand(r) == r.BRANDPRODUCT = brand
        rows == SelectSeq(df.rows, OfBrand)
        keys == { <<rows[i].ItemCode, rows[i].ItemName>> : i \in 1..Len(rows) }
        sorted == SortKeys(keys)
        Group(k) == LET Is(r) == r.ItemCode = k[1] /\ r.ItemName = k[2]
                    IN  SelectSeq(rows, Is)
    IN  [i \in 1..Len(sorted) |->
            [ItemCode |-> sorted[i][1], ItemName |-> sorted[i][2],
             TON |-> SumTON(Group(sorted[i]))]]

\* mutant: the total taken over the whole table, not grouped by brand
TotalAllBrandsTon(df, brand) == SumTON(df.rows)

\* brand_sku_tonnage.groupby('BRANDPRODUCT')['TON'].sum()
TotalBrandTon(df, brand) == SumTON(BrandSkuTonnage(df, brand))

\* brand_sku_percentages[brand_sku_percentages['BRANDPRODUCT'] == brand]
CurrentBrandSkus(df, brand) ==
    LET skus == BrandSkuTonnage(df, brand)
        total == TotalBrandTon(df, brand)
    IN  [i \in 1..Len(skus) |->
            [ItemCode |-> skus[i].ItemCode, ItemName |-> skus[i].ItemName,
             TON |-> skus[i].TON, TotalBrandTon |-> total,
             Percentage |-> Frac(skus[i].TON, total)]]

\* brand_sku_percentages, by brand
BrandSkuPercentages(df) ==
    [b \in { df.rows[i].BRANDPRODUCT : i \in 1..Len(df.rows) } |->
        CurrentBrandSkus(df, b)]

\* 0.001
Threshold == <<1, 1000>>

\* if percentage >= 0.001
Included(sku_row) == FracGE(sku_row.Percentage, Threshold)

DistributionEntry(target, sku_row) ==
    [tonnage |-> FracMul(target, sku_row.Percentage),
     percentage |-> sku_row.Percentage,
     itemName |-> sku_row.ItemName,
     historicalTonnage |-> sku_row.TON]

\* the loop over current_brand_skus.iterrows(), for one of the two
\* distributions: distribution[sku_code] = {...}
RECURSIVE Distribute(_, _, _)
Distribute(dist, target, sku_rows) ==
    IF sku_rows = <<>> THEN dist
    ELSE LET sku_row == Head(sku_rows)
             next == IF Included(sku_row)
                     THEN (sku_row.ItemCode :> DistributionEntry(target, sku_row)) @@ dist
                     ELSE dist
         IN  Distribute(next, target, Tail(sku_rows))

\* predictions[brand]
BrandPrediction(targets, current_brand_skus) ==
    [mayTarget |-> targets.mayTarget,
     w1Target |-> targets.w1Target,
     historicalTonnage |-> targets.historicalTonnage,
     categories |-> targets.categories,
     mayDistribution |-> Distribute(<<>>, targets.mayTarget, current_brand_skus),
     w1Distribution |-> Distribute(<<>>, targets.w1Target, current_brand_skus),
     skuCount |-> Len(current_brand_skus)]

\* mutant: the check for an empty selection left out
AlwaysHasHistory(df, brand) == TRUE

\* if len(current_brand_skus) == 0: continue
HasHistory(df, brand) == Len(CurrentBrandSkus(df, brand)) > 0

\* mutant: a brand without historical rows ends the whole prediction
predict_AbortOnMissingHistory(agg, df) ==
    IF Empty(df) \/ \E x \in DOMAIN agg : ~HasHistory(df, x) THEN <<>>
    ELSE [b \in DOMAIN agg |-> BrandPrediction(agg[b], CurrentBrandSkus(df, b))]

predict_sku_distribution(agg, df) ==
    IF Empty(df) THEN <<>>
    ELSE [b \in { x \in DOMAIN agg : HasHistory(df, x) } |->
             BrandPrediction(agg[b], CurrentBrandSkus(df, b))]

(***************************************************************************)
(* The inputs of a run.                                                    *)
(***************************************************************************)
TargetItem(category, pair) ==
    [Category |-> category, mayTarget |-> pair[1], w1Target |-> pair[2]]

TargetPairs == { <<200, 50>>, <<120, 30>> }

\* one category row, any category name
ClassifierTargets == { <<TargetItem(c, <<200, 50>>)>> : c \in CategoryNames }

C_ScgPipe == <<"M","F","G"," ","S","C","G"," ","P","i","p","e">>
C_ScgConduit == <<"M","F","G"," ","S","C","G"," ","C","o","n","d","u","i","t">>
C_MizuFitting == <<"M","F","G"," ","M","i","z","u"," ","F","i","t","t","i","n","g">>
C_Other == <<"M","F","G"," ","O","t","h","e","r">>
C_Trading == <<"T","r","a","d","i","n","g"," ","F","i","t","t","i","n","g">>

AggregationCategories == { C_ScgPipe, C_ScgConduit, C_MizuFitting, C_Other, C_Trading }

\* up to MaxCats category rows with distinct names (the keys of a dict)
AggregationTargets ==
    UNION { { [i \in 1..Len(cs) |-> TargetItem(cs[i], ps[i])] :
                ps \in [1..Len(cs) -> TargetPairs] } :
            cs \in InjectiveSeqs(AggregationCategories, MaxCats) }

DistributionTargets ==
    { <<TargetItem(C_ScgPipe, <<200, 50>>)>>,
      <<TargetItem(C_ScgPipe, <<200, 50>>), TargetItem(C_MizuFitting, <<120, 30>>)>>,
      <<TargetItem(C_Other, <<120, 30>>), TargetItem(C_ScgPipe, <<200, 50>>)>>,
      <<TargetItem(C_ScgPipe, <<200, 50>>), TargetItem(C_ScgConduit, <<120, 0>>)>>,
      <<TargetItem(C_Trading, <<120, 30>>)>> }

HistBrands == { SCG_PI, MIZU_FT }
ItemCodes == { "A1", "A2" }
ItemNames == { "Pipe 1in", "Pipe 2in" }
TonValues == { 1, 999, 1000 }
DateCells == { "2024-04-10", "2024-05-10" }

\* rows accepted by process_historical_file: TON > 0, brand and code present;
\* the tables with a Date column hold one SKU per brand
HistRows(dated) ==
    IF dated
    THEN [BRANDPRODUCT : HistBrands, ItemCode : {"A1"}, ItemName : {"Pipe 1in"},
          TON : TonValues, Date : DateCells]
    ELSE [BRANDPRODUCT : HistBrands, ItemCode : ItemCodes, ItemName : ItemNames,
          TON : TonValues, Date : {""}]

RowRank(r) ==
    (((IF r.BRANDPRODUCT = SCG_PI THEN 1 ELSE 2) * 100 + StrRank(r.ItemCode)) * 100
        + StrRank(r.ItemName)) * 100000 + r.TON * 100 + StrRank(r.Date)

\* tables of up to n rows; no step of the run depends on the order of the
\* rows, so one order stands for every order of the same rows
HistTables(dated, n) ==
    UNION { { [dateCol |-> dated, rows |-> rows] :
                rows \in { s \in [1..k -> HistRows(dated)] :
                             \A i \in 1..(k - 1) : RowRank(s[i]) <= RowRank(s[i + 1]) } } :
            k \in 0..n }

HistoricalTables == HistTables(FALSE, MaxRows) \cup HistTables(TRUE, MaxRows)

HRow(brand, code, name, ton, date) ==
    [BRANDPRODUCT |-> brand, ItemCode |-> code, ItemName |-> name, TON |-> ton, Date |-> date]

SampleTables ==
    { [dateCol |-> FALSE, rows |-> <<HRow(SCG_PI, "A1", "Pipe 1in", 80, ""),
                                     HRow(SCG_PI, "A2", "Pipe 2in", 20, "")>>],
      [dateCol |-> TRUE, rows |-> <<HRow(SCG_PI, "A1", "Pipe 1in", 80, "2024-05-10"),
                                    HRow(SCG_PI, "A1", "Pipe 1in", 40, "2024-04-10"),
                                    HRow(MIZU_FT, "A2", "Pipe 2in", 20, "2024-05-10")>>] }

(***************************************************************************)
(* process_historical_file.  The uploaded sheet is a sequence of rows of   *)
(* cells, as read with dtype=str: a cell is its text, or NaN when empty.   *)
(***************************************************************************)
NaN == <<"NaN">>

\* .astype(str) of a cell
AsStr(cell) == IF cell = NaN THEN <<"n","a","n">> ELSE cell

\* str.replace(c, '')
RemoveChar(s, c) == SelectSeq(s, LAMBDA x : x # c)

DigitChars == <<"0","1","2","3","4","5","6","7","8","9">>
IsDigits(s) == s # <<>> /\ \A i \in 1..Len(s) : \E d \in 1..10 : DigitChars[d] = s[i]
DigitOf(c) == (CHOOSE d \in 1..10 : DigitChars[d] = c) - 1

RECURSIVE DigitsValue(_)
DigitsValue(s) ==
    IF s = <<>> THEN 0
    ELSE DigitsValue(SubSeq(s, 1, Len(s) - 1)) * 10 + DigitOf(s[Len(s)])

\* pd.to_numeric(text, errors='coerce') and float(text) on whole numbers:
\* None stands for NaN (to_numeric) or for the ValueError (float)
ToNumeric(s) ==
    IF IsDigits(s) THEN Some(DigitsValue(s))
    ELSE IF s # <<>> /\ Head(s) = "-" /\ IsDigits(Tail(s)) THEN Some(0 - DigitsValue(Tail(s)))
    ELSE None

\* the text of a cell as one of the opaque strings of the tables
Intern(s) ==
    CASE s = <<"A","1">> -> "A1"
      [] s = <<"A","2">> -> "A2"
      [] s = <<"P","i","p","e"," ","1","i","n">> -> "Pipe 1in"
      [] s = <<"P","i","p","e"," ","2","i","n">> -> "Pipe 2in"
      [] s = <<"2","0","2","4","-","0","4","-","1","0">> -> "2024-04-10"
      [] s = <<"2","0","2","4","-","0","5","-","1","0">> -> "2024-05-10"
      [] s = <<>> -> ""
      [] s = <<"n","a","n">> -> "nan"
      [] OTHER -> "other"

\* HISTORICAL_REQUIRED_COLS
RequiredCols == << <<"B","R","A","N","D","P","R","O","D","U","C","T">>,
                  <<"I","t","e","m"," ","C","o","d","e">>,
                  <<"T","O","N">>,
                  <<"I","t","e","m"," ","N","a","m","e">> >>

\* the column names pandas gives for the header row at offset pos: an empty
\* header cell is named "Unnamed: j" (the numbering of repeated names is
\* left out, it does not change which names contain a label)
ColumnName(cell, j) ==
    IF cell = NaN THEN <<"U","n","n","a","m","e","d",":"," ">> \o <<DigitChars[j]>> ELSE cell

Columns(sheet, pos) ==
    [j \in 1..Len(sheet[pos + 1]) |-> ColumnName(sheet[pos + 1][j], j)]

\* req_col.upper() in str(temp_col).upper()
MatchesCol(req_col, col) == Contains(Upper(col), Upper(req_col))

\* cols_found
ColsFound(cols) ==
    Cardinality({ k \in 1..Len(RequiredCols) :
                    \E j \in 1..Len(cols) : MatchesCol(RequiredCols[k], cols[j]) })

\* a header that must carry every required label
EnoughColsAll(cols_found) == cols_found >= Len(RequiredCols)

\* if cols_found >= 3
EnoughCols(cols_found) == cols_found >= 3

\* read_excel raises when the sheet ends before the header row
HeaderQualifies(sheet, pos) ==
    /\ pos < Len(sheet)
    /\ EnoughCols(ColsFound(Columns(sheet, pos)))

\* for header_pos in header_positions: ... break
RECURSIVE FindHeader(_, _)
FindHeader(sheet, header_positions) ==
    IF header_positions = <<>> THEN None
    ELSE IF HeaderQualifies(sheet, Head(header_positions)) THEN Some(Head(header_positions))
    ELSE FindHeader(sheet, Tail(header_positions))

HeaderPositions == <<0, 1, 2>>

\* column_mapping and df.rename: each label renames the first column that
\* contains it; a column taken by two labels keeps the later one
FirstMatch(req_col, cols) ==
    LET matching == { j \in 1..Len(cols) : MatchesCol(req_col, cols[j]) }
    IN  IF matching = {} THEN 0
        ELSE CHOOSE j \in matching : \A i \in matching : j <= i

RECURSIVE RenameLoop(_, _, _)
RenameLoop(names, cols, k) ==
    IF k > Len(RequiredCols) THEN names
    ELSE LET j == FirstMatch(RequiredCols[k], cols)
         IN  RenameLoop(IF j = 0 THEN names ELSE [names EXCEPT ![j] = RequiredCols[k]],
                        cols, k + 1)

Renamed(cols) == RenameLoop(cols, cols, 1)

\* missing_cols
MissingCols(names) ==
    { k \in 1..Len(RequiredCols) : \A j \in 1..Len(names) : names[j] # RequiredCols[k] }

\* two columns of one required name: df[name] is a frame and .str raises
Ambiguous(names) ==
    \E k \in 1..Len(RequiredCols) :
        Cardinality({ j \in 1..Len(names) : names[j] = RequiredCols[k] }) > 1

ColumnOf(names, name) == CHOOSE j \in 1..Len(names) : names[j] = name

\* the words filter_historical_by_month looks for in the column names
DateWords == { <<"d","a","t","e">>, <<"t","i","m","e">>, <<"m","o","n","t","h">>, <<"p","e","r","i","o","d">> }
IsDateColumn(name) == \E w \in DateWords : Contains(Lower(name), w)
HasDateColumn(names) == \E j \in 1..Len(names) : IsDateColumn(names[j])
DateColumnOf(names) ==
    CHOOSE j \in 1..Len(names) :
        IsDateColumn(names[j]) /\ \A i \in 1..(j - 1) : ~IsDateColumn(names[i])

NanText == <<"n","a","n">>

\* a tonnage that is kept whatever its sign
AnyTon(ton) == ton # None

\* dropna(subset=['TON']) and df['TON'] > 0
PositiveTon(ton) == ton # None /\ Val(ton) > 0

\* the cleaning of lines 81-95, row by row
CleanTon(row, names) ==
    ToNumeric(RemoveChar(AsStr(row[ColumnOf(names, RequiredCols[3])]), ","))

KeepRow(row, names) ==
    LET brand == row[ColumnOf(names, RequiredCols[1])]
        code == row[ColumnOf(names, RequiredCols[2])]
    IN  /\ PositiveTon(CleanTon(row, names))
        /\ brand # NaN
        /\ code # NaN
        /\ Strip(brand) # <<>>
        /\ Strip(brand) # NanText
        /\ Strip(code) # <<>>
        /\ Strip(code) # NanText

CleanRow(row, names) ==
    HRow(Strip(row[ColumnOf(names, RequiredCols[1])]),
         Intern(Strip(row[ColumnOf(names, RequiredCols[2])])),
         Intern(Strip(AsStr(row[ColumnOf(names, RequiredCols[4])]))),
         Val(CleanTon(row, names)),
         IF HasDateColumn(names) THEN Intern(AsStr(row[DateColumnOf(names)])) ELSE "")

CleanRows(data, names) ==
    LET kept == SelectSeq(data, LAMBDA row : KeepRow(row, names))
    IN  [i \in 1..Len(kept) |-> CleanRow(kept[i], names)]

\* one call: the header offset found (header_pos), what the function
\* shows (the error, or the data summary) and the value it returns (None, or
\* the cleaned table)
HistoricalOutcome(sheet) ==
    LET found == FindHeader(sheet, HeaderPositions)
    IN  IF found = None
        THEN [header_pos |-> None, message |-> "no_valid_headers", df |-> None]
        ELSE LET names == Renamed(Columns(sheet, Val(found)))
                 data == SubSeq(sheet, Val(found) + 2, Len(sheet))
             IN  IF MissingCols(names) # {}
                 THEN [header_pos |-> found, message |-> "missing_columns", df |-> None]
                 ELSE IF Ambiguous(names)
                 THEN [header_pos |-> found, message |-> "error", df |-> None]
                 ELSE [header_pos |-> found, message |-> "data_summary",
                       df |-> Some([dateCol |-> HasDateColumn(names),
                                    rows |-> CleanRows(data, names)])]

process_historical_file(sheet) == HistoricalOutcome(sheet).df

(***************************************************************************)
(* process_target_file.  The sheet is read without a header row: a        *)
(* sequence of rows of cells, a cell being its text or NaN.  Row and       *)
(* column indexes are those of the code, counted from 0.                   *)
(***************************************************************************)
T_may == <<"m","a","y">>
T_w1 == <<"w","1">>
T_total == <<"t","o","t","a","l">>

\* df.iloc[row_idx, col_idx]
Cell(sheet, row_idx, col_idx) == sheet[row_idx + 1][col_idx + 1]

Width(sheet) == IF sheet = <<>> THEN 0 ELSE Len(sheet[1])

\* str(cell).strip().lower()
CellValue(cell) == Lower(Strip(AsStr(cell)))

\* the body of the column scan for one cell: the first cell with 'may'
\* sets may_col_idx, a later cell with 'w1' sets w1_col_idx
ScanCell(found, cell, col_idx) ==
    IF Contains(CellValue(cell), T_may) /\ found.may_col_idx = None
    THEN [found EXCEPT !.may_col_idx = Some(col_idx)]
    ELSE IF Contains(CellValue(cell), T_w1) /\ found.w1_col_idx = None
    THEN [found EXCEPT !.w1_col_idx = Some(col_idx)]
    ELSE found

\* for row_idx in range(min(3, len(df))): for col_idx in range(len(df.columns))
RECURSIVE ScanFrom(_, _, _, _)
ScanFrom(found, sheet, row_idx, col_idx) ==
    IF row_idx >= 3 \/ row_idx >= Len(sheet) THEN found
    ELSE IF col_idx >= Width(sheet) THEN ScanFrom(found, sheet, row_idx + 1, 0)
    ELSE ScanFrom(ScanCell(found, Cell(sheet, row_idx, col_idx), col_idx),
                  sheet, row_idx, col_idx + 1)

\* the two column indexes after the fallback to 1 and 2
DetectColumns(sheet) ==
    LET found == ScanFrom([may_col_idx |-> None, w1_col_idx |-> None], sheet, 0, 0)
    IN  << IF found.may_col_idx = None THEN 1 ELSE Val(found.may_col_idx),
           IF found.w1_col_idx = None THEN 2 ELSE Val(found.w1_col_idx) >>

\* start_row_idx
StartRow == 2

\* end_row_idx: the first row from start_row_idx on with 'total' in its
\* first cell, or len(df)
RECURSIVE EndRow(_, _)
EndRow(sheet, i) ==
    IF i >= Len(sheet) THEN Len(sheet)
    ELSE IF Contains(CellValue(Cell(sheet, i, 0)), T_total) THEN i
    ELSE EndRow(sheet, i + 1)

\* float(str(value).replace(',', '').strip()) if the cell is not missing,
\* 0 for a missing cell and for a text float() rejects
TargetValue(value) ==
    IF value # NaN /\ Strip(AsStr(value)) # NanText
    THEN LET number == ToNumeric(Strip(RemoveChar(AsStr(value), ",")))
         IN  IF number = None THEN 0 ELSE Val(number)
    ELSE 0

\* df.iloc[i, idx] if idx < len(df.columns) else "0"
ValueAt(sheet, i, idx) == IF idx < Width(sheet) THEN Cell(sheet, i, idx) ELSE <<"0">>

\* pd.notna(category_name) and its text, stripped, neither '' nor 'nan'
HasCategory(category_name) ==
    /\ category_name # NaN
    /\ Strip(AsStr(category_name)) # <<>>
    /\ Strip(AsStr(category_name)) # NanText

\* category_targets[item['Category']] = {...}: a category met again keeps
\* its place and takes the later targets
PutTarget(targets, item) ==
    IF \E k \in 1..Len(targets) : targets[k].Category = item.Category
    THEN [k \in 1..Len(targets) |->
             IF targets[k].Category = item.Category THEN item ELSE targets[k]]
    ELSE Append(targets, item)

\* the extraction loop over range(start_row_idx, end_row_idx)
RECURSIVE ExtractFrom(_, _, _, _, _)
ExtractFrom(targets, sheet, i, end_row_idx, cols) ==
    IF i >= end_row_idx THEN targets
    ELSE LET category_name == Cell(sheet, i, 0)
             item == TargetItem(Strip(AsStr(category_name)),
                                << TargetValue(ValueAt(sheet, i, cols[1])),
                                   TargetValue(ValueAt(sheet, i, cols[2])) >>)
         IN  ExtractFrom(IF HasCategory(category_name) THEN PutTarget(targets, item)
                         ELSE targets,
                         sheet, i + 1, end_row_idx, cols)

\* a result that is returned even when nothing was extracted
ReturnAlways(targets) == Some(targets)

\* if category_data: return category_targets, else: return None
ReturnTargets(targets) == IF targets # <<>> THEN Some(targets) ELSE None

\* one call: the column indexes detected (None when the call ends before
\* the detection), what the function shows, and the value it returns
TargetOutcome(sheet) ==
    IF Len(sheet) < 3
    THEN [cols |-> None, message |-> "insufficient_data", targets |-> None]
    ELSE LET cols == DetectColumns(sheet)
             targets == ExtractFrom(<<>>, sheet, StartRow, EndRow(sheet, StartRow), cols)
         IN  [cols |-> Some(cols),
              message |-> IF targets # <<>> THEN "extracted" ELSE "no_category_data",
              targets |-> ReturnTargets(targets)]

process_target_file(sheet) == TargetOutcome(sheet).targets

(***************************************************************************)
(* The uploaded historical sheets of the model: rows above the header,    *)
(* a header row or none, and up to MaxRows data rows.  The columns are     *)
(* brand, code, tonnage, name and a fifth column.                          *)
(***************************************************************************)
TitleRow == <<<<"S","a","l","e","s"," ","r","e","p","o","r","t">>, NaN, NaN, NaN, NaN>>

H_Exact == <<<<"B","R","A","N","D","P","R","O","D","U","C","T">>, <<"I","t","e","m"," ","C","o","d","e">>, <<"T","O","N">>, <<"I","t","e","m"," ","N","a","m","e">>, <<"D","a","t","e">>>>
H_Loose == <<<<"b","r","a","n","d","p","r","o","d","u","c","t">>, <<"i","t","e","m"," ","c","o","d","e">>, <<"T","o","n","n","a","g","e">>, <<"I","T","E","M"," ","N","A","M","E">>, <<"R","e","m","a","r","k">>>>
H_Three == <<<<"B","R","A","N","D","P","R","O","D","U","C","T">>, <<"I","t","e","m"," ","C","o","d","e">>, <<"T","O","N">>, <<"N","a","m","e">>, <<"R","e","m","a","r","k">>>>
H_Two == <<<<"B","r","a","n","d">>, <<"C","o","d","e">>, <<"T","O","N">>, <<"I","t","e","m"," ","N","a","m","e">>, <<"R","e","m","a","r","k">>>>

\* the rows above the header row
Preambles ==
    { <<>>, <<TitleRow>>, <<TitleRow, TitleRow>>, <<TitleRow, TitleRow, TitleRow>>,
      <<H_Three>>, <<TitleRow, H_Three>> }

\* the header row, if the sheet has one
HeaderRows == { <<>>, <<H_Exact>>, <<H_Loose>>, <<H_Three>>, <<H_Two>> }

\* two rows that are kept, then rows with one cell that makes the row invalid
RawRows ==
    << <<<<"S","C","G","-","P","I">>, <<"A","1">>, <<"8","0">>, <<"P","i","p","e"," ","1","i","n">>, <<"2","0","2","4","-","0","5","-","1","0">>>>,
       <<<<" ","M","I","Z","U","-","F","T"," ">>, <<" ","A","2"," ">>, <<"1",",","0","0","0">>, <<"P","i","p","e"," ","2","i","n">>, <<"2","0","2","4","-","0","4","-","1","0">>>>,
       <<<<"n","a","n">>, <<"A","1">>, <<"8","0">>, <<"P","i","p","e"," ","1","i","n">>, <<"2","0","2","4","-","0","5","-","1","0">>>>,
       <<<<" ">>, <<"A","1">>, <<"8","0">>, <<"P","i","p","e"," ","1","i","n">>, <<"2","0","2","4","-","0","5","-","1","0">>>>,
       <<NaN, <<"A","1">>, <<"8","0">>, <<"P","i","p","e"," ","1","i","n">>, <<"2","0","2","4","-","0","5","-","1","0">>>>,
       <<<<"S","C","G","-","P","I">>, <<" ","n","a","n"," ">>, <<"8","0">>, <<"P","i","p","e"," ","1","i","n">>, <<"2","0","2","4","-","0","5","-","1","0">>>>,
       <<<<"S","C","G","-","P","I">>, <<" ">>, <<"8","0">>, <<"P","i","p","e"," ","1","i","n">>, <<"2","0","2","4","-","0","5","-","1","0">>>>,
       <<<<"S","C","G","-","P","I">>, NaN, <<"8","0">>, <<"P","i","p","e"," ","1","i","n">>, <<"2","0","2","4","-","0","5","-","1","0">>>>,
       <<<<"S","C","G","-","P","I">>, <<"A","1">>, <<"0">>, <<"P","i","p","e"," ","1","i","n">>, <<"2","0","2","4","-","0","5","-","1","0">>>>,
       <<<<"S","C","G","-","P","I">>, <<"A","1">>, <<"-","5">>, <<"P","i","p","e"," ","1","i","n">>, <<"2","0","2","4","-","0","5","-","1","0">>>>,
       <<<<"S","C","G","-","P","I">>, <<"A","1">>, <<"a","b","c">>, <<"P","i","p","e"," ","1","i","n">>, <<"2","0","2","4","-","0","5","-","1","0">>>>,
       <<<<"S","C","G","-","P","I">>, <<"A","1">>, NaN, <<"P","i","p","e"," ","1","i","n">>, <<"2","0","2","4","-","0","5","-","1","0">>>> >>

\* the data rows: up to n rows, in the order of RawRows (the cleaning
\* treats each row on its own)
RawData(n) ==
    UNION { { [i \in 1..k |-> RawRows[idx[i]]] :
                idx \in { s \in [1..k -> 1..Len(RawRows)] :
                             \A i \in 1..(k - 1) : s[i] <= s[i + 1] } } :
            k \in 0..n }

HistoricalSheets ==
    { pre \o hdr \o data : pre \in Preambles, hdr \in HeaderRows, data \in RawData(MaxRows) }

(***************************************************************************)
(* The uploaded target sheets of the model: up to two rows of titles and  *)
(* column headings, then up to MaxRows rows of categories and totals.      *)
(***************************************************************************)
R_Title == <<<<"S","a","l","e","s"," ","R","o","l","l","i","n","g">>, NaN, NaN>>
R_Head == <<<<"C","a","t","e","g","o","r","y">>, <<"M","a","y">>, <<"W","1">>>>
R_HeadSwapped == <<<<"C","a","t","e","g","o","r","y">>, <<"W","1">>, <<"M","a","y">>>>
R_HeadW1Only == <<<<"C","a","t","e","g","o","r","y">>, <<"W","1">>, <<"P","l","a","n">>>>
R_Units == <<NaN, <<"T","o","n","s">>, <<"T","o","n","s">>>>

TopRows ==
    { <<>>, <<R_Title>>, <<R_Head>>, <<R_Title, R_Head>>, <<R_Head, R_Units>>,
      <<R_Title, R_HeadSwapped>>, <<R_Title, R_HeadW1Only>>, <<R_Title, R_Units>> }

D_ScgPipe == <<<<"M","F","G"," ","S","C","G"," ","P","i","p","e">>, <<"2","0","0">>, <<"5","0">>>>
D_MizuFitting == <<<<" ","M","F","G"," ","M","i","z","u"," ","F","i","t","t","i","n","g"," ">>, <<"1",",","2","0","0">>, <<"n","/","a">>>>
D_Trading == <<<<"T","r","a","d","i","n","g"," ","F","i","t","t","i","n","g">>, <<"1","0">>, <<"5">>>>
D_Unnamed == <<NaN, <<"1">>, <<"1">>>>
D_Blank == <<<<" ">>, <<"1">>, NaN>>
D_Negative == <<<<"M","F","G"," ","S","C","G"," ","C","o","n","d","u","i","t">>, <<"-","5">>, <<"3","0">>>>
D_MayPipe == <<<<"M","F","G"," ","S","C","G"," ","P","i","p","e"," ","M","a","y">>, <<"7">>, <<"3">>>>
D_Total == <<<<"G","r","a","n","d"," ","T","o","t","a","l">>, <<"3","3","0">>, <<"8","5">>>>

BodyRows ==
    { D_ScgPipe, D_MizuFitting, D_Trading, D_Unnamed, D_Blank, D_Negative, D_MayPipe,
      D_Total }

TargetSheets ==
    { top \o body : top \in TopRows,
                     body \in UNION { [1..k -> BodyRows] : k \in 0..MaxRows } }

(***************************************************************************)
(* The session.                                                            *)
(***************************************************************************)
NoRun ==
    /\ filtered_historical = None
    /\ brand_targets_agg = None
    /\ brand_sku_percentages = None
    /\ predictions = None
    /\ message = "none"
    /\ brand_data = None
    /\ ai_insights = None
    /\ analysis_data = None
    /\ insights_message = "none"

\* no file sits in either uploader and none has been processed in this run
NoFiles ==
    /\ historical_file = None
    /\ target_file = None
    /\ target_cols = None
    /\ header_pos = None
    /\ historical_message = "none"
    /\ target_message = "none"

\* both files loaded; category names of every shape, few historical tables
InitTargets ==
    /\ historical_df \in { Some(t) : t \in SampleTables }
    /\ category_targets \in { Some(m) : m \in ClassifierTargets \cup AggregationTargets }
    /\ NoRun
    /\ NoFiles
    /\ openai_env = "not_installed"

\* both files loaded; historical tables of every shape, few target files
InitDistribute ==
    /\ historical_df \in { Some(t) : t \in HistoricalTables }
    /\ category_targets \in { Some(m) : m \in DistributionTargets }
    /\ NoRun
    /\ NoFiles
    /\ openai_env = "not_installed"

\* the handler of the button on the stored table and targets: what the
\* session holds when it returns
GenerateOutcome(hdf, targets, stored_predictions, stored_percentages) ==
    LET filtered == filter_historical_by_month(hdf)
        agg == map_categories_to_brands(targets, filtered)
        preds == predict_sku_distribution(agg, filtered)
    IN  [historical_df |-> Some(HistoricalAfterFilter(hdf)),
         filtered_historical |-> Some(filtered),
         brand_targets_agg |-> Some(agg),
         predictions |-> IF DOMAIN agg # {} THEN Some(preds) ELSE stored_predictions,
         brand_sku_percentages |->
             IF DOMAIN agg # {} /\ ~Empty(filtered)
             THEN Some(BrandSkuPercentages(filtered))
             ELSE stored_percentages,
         message |-> IF DOMAIN agg = {} THEN "no_brands"
                     ELSE IF DOMAIN preds # {} THEN "success"
                     ELSE "no_predictions"]

\* the "Generate SKU Distribution" button
Generate ==
    /\ historical_df # None
    /\ category_targets # None
    /\ LET run == GenerateOutcome(Val(historical_df), Val(category_targets),
                                  predictions, brand_sku_percentages)
       IN  /\ historical_df' = run.historical_df
           /\ filtered_historical' = run.filtered_historical
           /\ brand_targets_agg' = run.brand_targets_agg
           /\ predictions' = run.predictions
           /\ brand_sku_percentages' = run.brand_sku_percentages
           /\ message' = run.message
    /\ UNCHANGED <<category_targets, historical_file, header_pos, historical_message,
                   target_file, target_cols, target_message, brand_data,
                   openai_env, ai_insights, analysis_data, insights_message>>

Next == Generate

SpecTargets == InitTargets /\ [][Next]_vars

SpecDistribute == InitDistribute /\ [][Next]_vars

(***************************************************************************)
(* display_insights_section: the brand analysis table of the Analysis tab. *)
(***************************************************************************)
FracGT(p, q) == ~FracGE(q, p)

\* brand_growth = may_target / historical if historical > 0 else 0
BrandGrowth(targets) ==
    IF targets.historicalTonnage > 0
    THEN Frac(targets.mayTarget, targets.historicalTonnage)
    ELSE FracOfInt(0)

\* if brand_growth > 3 ... elif brand_growth > 1.5 ... else
RiskLevel(brand_growth) ==
    IF FracGT(brand_growth, FracOfInt(3)) THEN "High"
    ELSE IF FracGT(brand_growth, Frac(3, 2)) THEN "Medium"
    ELSE "Low"

\* len(predictions.get(brand, {}).get('mayDistribution', {}))
SkuCount(preds, brand) ==
    IF brand \in DOMAIN preds THEN Cardinality(DOMAIN preds[brand].mayDistribution) ELSE 0

\* the rows of brand_data, by brand
BrandAnalysis(agg, preds) ==
    [brand \in DOMAIN agg |->
        [mayTarget |-> agg[brand].mayTarget,
         historical |-> agg[brand].historicalTonnage,
         growth |-> BrandGrowth(agg[brand]),
         risk |-> RiskLevel(BrandGrowth(agg[brand])),
         skuCount |-> SkuCount(preds, brand)]]

\* a rerun of the script with a file in the historical uploader
LoadHistorical ==
    /\ historical_file # None
    /\ LET outcome == HistoricalOutcome(Val(historical_file))
       IN  /\ historical_df' = outcome.df
           /\ header_pos' = outcome.header_pos
           /\ historical_message' = outcome.message
    /\ UNCHANGED <<category_targets, filtered_historical, brand_targets_agg,
                   brand_sku_percentages, predictions, message, historical_file,
                   target_file, target_cols, target_message, brand_data,
                   openai_env, ai_insights, analysis_data, insights_message>>

\* a new session with a file chosen in the historical uploader
InitIngest ==
    /\ historical_file \in { Some(sheet) : sheet \in HistoricalSheets }
    /\ historical_df = None
    /\ category_targets = None
    /\ NoRun
    /\ target_file = None
    /\ target_cols = None
    /\ header_pos = None
    /\ historical_message = "none"
    /\ target_message = "none"
    /\ openai_env = "not_installed"

NextIngest == LoadHistorical

SpecIngest == InitIngest /\ [][NextIngest]_vars

\* a rerun of the script with a file in the target uploader
LoadTarget ==
    /\ target_file # None
    /\ LET outcome == TargetOutcome(Val(target_file))
       IN  /\ category_targets' = outcome.targets
           /\ target_cols' = outcome.cols
           /\ target_message' = outcome.message
    /\ UNCHANGED <<historical_df, filtered_historical, brand_targets_agg,
                   brand_sku_percentages, predictions, message, historical_file,
                   header_pos, historical_message, target_file, brand_data,
                   openai_env, ai_insights, analysis_data, insights_message>>

\* a session with the historical table loaded and a file chosen in the
\* target uploader
InitTargetFile ==
    /\ target_file \in { Some(sheet) : sheet \in TargetSheets }
    /\ historical_df \in { Some(t) : t \in SampleTables }
    /\ category_targets = None
    /\ NoRun
    /\ historical_file = None
    /\ header_pos = None
    /\ historical_message = "none"
    /\ target_cols = None
    /\ target_message = "none"
    /\ openai_env = "not_installed"

NextTargetFile == LoadTarget \/ Generate

SpecTargetFile == InitTargetFile /\ [][NextTargetFile]_vars

\* OPENAI_AVAILABLE and OPENAI_API_KEY, fixed when the script is loaded
OpenAIEnvs == { "not_installed", "no_key", "ready" }

\* what the chat completion call does: it raises, or its text is not JSON,
\* or the JSON is not an object (the first .get raises), or it is an object
AIOutcomes == { "raises", "malformed_json", "not_an_object", "object" }

\* targets['mayTarget'] of the first sum raises KeyError
SectionRaises(agg) == \E brand \in DOMAIN agg : "mayTarget" \notin DOMAIN agg[brand]

\* sum(targets[field] for targets in brand_targets_agg.values())
RECURSIVE TotalOf(_, _)
TotalOf(agg, field) ==
    IF DOMAIN agg = {} THEN 0
    ELSE LET brand == CHOOSE b \in DOMAIN agg : TRUE
         IN  agg[brand][field] + TotalOf([b \in DOMAIN agg \ {brand} |-> agg[b]], field)

\* growth_rate = (total_may / total_historical) if total_historical > 0 else 0
GrowthRate(agg) ==
    IF TotalOf(agg, "historicalTonnage") > 0
    THEN Frac(TotalOf(agg, "mayTarget"), TotalOf(agg, "historicalTonnage"))
    ELSE FracOfInt(0)

HighRiskCount(agg) ==
    Cardinality({ brand \in DOMAIN agg : RiskLevel(BrandGrowth(agg[brand])) = "High" })

\* analysis_data['summary']
Summary(agg) ==
    [total_may_target |-> TotalOf(agg, "mayTarget"),
     total_historical |-> TotalOf(agg, "historicalTonnage"),
     growth_factor |-> GrowthRate(agg),
     brand_count |-> Cardinality(DOMAIN agg),
     high_risk_brands |-> HighRiskCount(agg)]

\* the list of strategic recommendations (the texts without their emoji)
Recommendations(growth_rate) ==
    IF FracGT(growth_rate, FracOfInt(3))
    THEN <<"Implement enhanced quality control measures",
           "Develop phased production schedule",
           "Consider additional skilled workforce",
           "Plan for equipment capacity expansion">>
    ELSE IF FracGT(growth_rate, FracOfInt(2))
    THEN <<"Optimize production scheduling",
           "Regular equipment maintenance checks",
           "Monitor progress weekly",
           "Focus on high-volume SKUs first">>
    ELSE <<"Current capacity should be sufficient",
           "Monitor standard KPIs",
           "Maintain existing quality standards",
           "Optimize for cost efficiency">>

\* targets['w1Target'] raises KeyError while the prompt is built
PromptRaises(agg) == \E brand \in DOMAIN agg : "w1Target" \notin DOMAIN agg[brand]

\* brand_details, the figures the prompt is written from (the rounded
\* ratios derived from them are left out)
BrandDetails(agg, preds) ==
    [brand \in DOMAIN agg |->
        [may_target |-> agg[brand].mayTarget,
         historical |-> agg[brand].historicalTonnage,
         w1_target |-> agg[brand].w1Target,
         sku_count |-> SkuCount(preds, brand),
         categories |-> agg[brand].categories]]

\* the request goes through to st.session_state.ai_insights = ai_insights
AISucceeds(agg, outcome) == outcome = "object" /\ ~PromptRaises(agg)

\* st.session_state.ai_insights after the AI part of the section: the
\* insights are identified by the prompt they answer
AIInsightsAfter(agg, preds, clicked, outcome, stored) ==
    IF clicked /\ AISucceeds(agg, outcome)
    THEN Some([brand_details |-> BrandDetails(agg, preds)])
    ELSE stored

\* the last message the AI part of the section shows
AIMessage(env, agg, clicked, outcome) ==
    IF env = "ready"
    THEN IF ~clicked THEN "api_key_detected"
         ELSE IF AISucceeds(agg, outcome) THEN "ai_analysis_completed"
         ELSE "ai_analysis_error"
    ELSE IF env = "no_key" THEN "api_key_not_found"
    ELSE "install_openai"

\* a section that gives up the whole analysis when the AI request fails
SectionOutcomeStrict(agg, preds, env, clicked, outcome, stored) ==
    IF SectionRaises(agg) \/ (env = "ready" /\ clicked /\ ~AISucceeds(agg, outcome))
    THEN [brand_data |-> None, analysis_data |-> None, ai_insights |-> stored,
          message |-> "error_in_ai_analysis"]
    ELSE LET ai == AIInsightsAfter(agg, preds, env = "ready" /\ clicked, outcome, stored)
         IN  [brand_data |-> Some(BrandAnalysis(agg, preds)),
              analysis_data |-> Some([summary |-> Summary(agg),
                                      brand_analysis |-> BrandAnalysis(agg, preds),
                                      recommendations |-> Recommendations(GrowthRate(agg)),
                                      ai_insights |-> ai]),
              ai_insights |-> ai,
              message |-> AIMessage(env, agg, clicked, outcome)]

\* one call of display_insights_section: the brand table shown, the data of
\* the JSON download (without its timestamp), the stored insights and the
\* message of the AI part; an exception anywhere outside the AI request
\* ends the section with an error
SectionOutcome(agg, preds, env, clicked, outcome, stored) ==
    IF SectionRaises(agg)
    THEN [brand_data |-> None, analysis_data |-> None, ai_insights |-> stored,
          message |-> "error_in_ai_analysis"]
    ELSE LET ai == AIInsightsAfter(agg, preds, env = "ready" /\ clicked, outcome, stored)
         IN  [brand_data |-> Some(BrandAnalysis(agg, preds)),
              analysis_data |-> Some([summary |-> Summary(agg),
                                      brand_analysis |-> BrandAnalysis(agg, preds),
                                      recommendations |-> Recommendations(GrowthRate(agg)),
                                      ai_insights |-> ai]),
              ai_insights |-> ai,
              message |-> AIMessage(env, agg, clicked, outcome)]

\* if st.session_state.brand_targets_agg and st.session_state.predictions
SectionShown(agg, preds) ==
    /\ agg # None
    /\ preds # None
    /\ DOMAIN Val(agg) # {}
    /\ DOMAIN Val(preds) # {}

\* the Analysis tab renders the section when both maps are non-empty
DisplayInsights ==
    /\ SectionShown(brand_targets_agg, predictions)
    /\ LET shown == SectionOutcome(Val(brand_targets_agg), Val(predictions), openai_env,
                                   FALSE, "object", ai_insights)
       IN  /\ brand_data' = shown.brand_data
           /\ analysis_data' = shown.analysis_data
           /\ insights_message' = shown.message
    /\ UNCHANGED <<historical_df, category_targets, filtered_historical,
                   brand_targets_agg, brand_sku_percentages, predictions, message,
                   historical_file, header_pos, historical_message,
                   target_file, target_cols, target_message, openai_env, ai_insights>>

\* the files of the session: a dated table, an undated one and a sheet
\* without a header row
F_HistDated == <<H_Exact, RawRows[1], RawRows[2]>>
F_HistUndated == <<H_Loose, RawRows[1], RawRows[2]>>
F_HistNoHeader == <<TitleRow, RawRows[1]>>

HistoricalFiles == { F_HistDated, F_HistUndated, F_HistNoHeader }

\* one manufactured category, two of them, a traded one, no data row
F_TargetScg == <<R_Title, R_Head, D_ScgPipe>>
F_TargetBoth == <<R_Title, R_Head, D_ScgPipe, D_MizuFitting>>
F_TargetTrading == <<R_Title, R_Head, D_Trading>>
F_TargetShort == <<R_Title, R_Head>>

TargetFiles == { F_TargetScg, F_TargetBoth, F_TargetTrading, F_TargetShort }

\* process_historical_file and process_target_file on the files of the
\* session, a run of the script calling them on the same file every time
ProcessedHistorical ==
    (F_HistDated :> HistoricalOutcome(F_HistDated))
        @@ (F_HistUndated :> HistoricalOutcome(F_HistUndated))
        @@ (F_HistNoHeader :> HistoricalOutcome(F_HistNoHeader))

ProcessedTarget ==
    (F_TargetScg :> TargetOutcome(F_TargetScg))
        @@ (F_TargetBoth :> TargetOutcome(F_TargetBoth))
        @@ (F_TargetTrading :> TargetOutcome(F_TargetTrading))
        @@ (F_TargetShort :> TargetOutcome(F_TargetShort))

\* an upload handler that keeps the stored value when the file is rejected
AssignIfLoaded(result, stored) == IF result = None THEN stored ELSE result

\* st.session_state.historical_df = process_historical_file(historical_file),
\* and the same for the targets: the result replaces the stored value
Assign(result, stored) == result

\* the last step of a run: what the session holds and what is on screen
\* (hist and tgt: the processing of the two uploaders; run: the session
\* after the Generate handler; shown: the Analysis tab)
EndOfRun(hfile, tfile, hist, tgt, run, shown) ==
    /\ historical_file' = hfile
    /\ target_file' = tfile
    /\ header_pos' = hist.header_pos
    /\ historical_message' = hist.message
    /\ target_cols' = tgt.cols
    /\ target_message' = tgt.message
    /\ category_targets' = run.category_targets
    /\ historical_df' = run.historical_df
    /\ filtered_historical' = run.filtered_historical
    /\ brand_targets_agg' = run.brand_targets_agg
    /\ predictions' = run.predictions
    /\ brand_sku_percentages' = run.brand_sku_percentages
    /\ message' = run.message
    /\ brand_data' = shown.brand_data
    /\ analysis_data' = shown.analysis_data
    /\ insights_message' = shown.message
    /\ ai_insights' = shown.ai_insights
    /\ UNCHANGED openai_env

\* the Analysis tab of a run: the section, with the AI request if its
\* button was clicked, or nothing when one of the two maps is empty
AnalysisTab(run, click, outcome) ==
    IF SectionShown(run.brand_targets_agg, run.predictions)
    THEN SectionOutcome(Val(run.brand_targets_agg), Val(run.predictions),
                        openai_env, click = "ai", outcome, ai_insights)
    ELSE [brand_data |-> None, analysis_data |-> None,
          ai_insights |-> ai_insights, message |-> "none"]

\* the Upload tab of a run once the files are processed: the Generate
\* handler if its button was clicked
UploadTab(hdf, targets, click) ==
    IF click = "generate"
    THEN [category_targets |-> targets]
             @@ GenerateOutcome(Val(hdf), Val(targets), predictions, brand_sku_percentages)
    ELSE [category_targets |-> targets,
          historical_df |-> hdf,
          filtered_historical |-> filtered_historical,
          brand_targets_agg |-> brand_targets_agg,
          predictions |-> predictions,
          brand_sku_percentages |-> brand_sku_percentages,
          message |-> message]

\* one run of the script.  The files in the two uploaders are processed
\* again, the Generate handler runs if its button was clicked, and the
\* Analysis tab shows the section, with the AI request if its button was
\* clicked.  A button can only be clicked where the run before showed it.
Rerun(hfile, tfile, click, outcome) ==
    \E hist \in { IF hfile # None THEN ProcessedHistorical[Val(hfile)]
                   ELSE [header_pos |-> header_pos, message |-> historical_message,
                         df |-> historical_df] } :
    \E tgt \in { IF tfile # None THEN ProcessedTarget[Val(tfile)]
                  ELSE [cols |-> target_cols, message |-> target_message,
                        targets |-> category_targets] } :
    \E hdf \in { IF hfile # None THEN Assign(hist.df, historical_df) ELSE historical_df } :
    \E targets \in { IF tfile # None THEN Assign(tgt.targets, category_targets)
                      ELSE category_targets } :
        /\ click = "generate" => (hdf # None /\ targets # None)
        /\ click = "ai" =>
               /\ SectionShown(brand_targets_agg, predictions)
               /\ ~SectionRaises(Val(brand_targets_agg))
               /\ openai_env = "ready"
        /\ \E run \in { UploadTab(hdf, targets, click) } :
           \E shown \in { AnalysisTab(run, click, outcome) } :
               EndOfRun(hfile, tfile, hist, tgt, run, shown)

\* the "Generate Advanced AI Insights" button
RequestAI(outcome) == Rerun(historical_file, target_file, "ai", outcome)

\* a file is put in the historical uploader, or taken out of it
UploadHistorical(sheet) == Rerun(Some(sheet), target_file, "none", "object")

RemoveHistorical == historical_file # None /\ Rerun(None, target_file, "none", "object")

\* a file is put in the target uploader, or taken out of it
UploadTarget(sheet) == Rerun(historical_file, Some(sheet), "none", "object")

RemoveTarget == target_file # None /\ Rerun(historical_file, None, "none", "object")

\* the "Generate SKU Distribution" button in a session with uploaders
ClickGenerate == Rerun(historical_file, target_file, "generate", "object")

\* a new session: nothing stored, both uploaders empty
InitSession ==
    /\ historical_df = None
    /\ category_targets = None
    /\ NoRun
    /\ NoFiles
    /\ openai_env \in OpenAIEnvs

NextSession ==
    \/ \E sheet \in HistoricalFiles : UploadHistorical(sheet)
    \/ RemoveHistorical
    \/ \E sheet \in TargetFiles : UploadTarget(sheet)
    \/ RemoveTarget
    \/ ClickGenerate
    \/ \E outcome \in AIOutcomes : RequestAI(outcome)

SpecSession == InitSession /\ [][NextSession]_vars

\* arguments of display_insights_section: brand targets as the pipeline
\* builds them, and ones with the mayTarget or the w1Target field missing
SectionBrandTargets ==
    [mayTarget : {100, 400}, w1Target : {25}, categories : {<<C_ScgPipe>>},
     historicalTonnage : {0, 100}]
        \cup [w1Target : {25}, categories : {<<C_ScgPipe>>}, historicalTonnage : {100}]
        \cup [mayTarget : {100}, categories : {<<C_ScgPipe>>}, historicalTonnage : {100}]

SectionTargets ==
    UNION { [brands -> SectionBrandTargets] : brands \in (SUBSET HistBrands) \ {{}} }

SectionPredictions ==
    predict_sku_distribution(
        SCG_PI :> [mayTarget |-> 100, w1Target |-> 25, categories |-> <<C_ScgPipe>>,
                   historicalTonnage |-> 100],
        [dateCol |-> FALSE, rows |-> <<HRow(SCG_PI, "A1", "Pipe 1in", 80, ""),
                                       HRow(SCG_PI, "A2", "Pipe 2in", 20, "")>>])

\* the section called on its arguments, outside a session with files
InitSection ==
    /\ brand_targets_agg \in { Some(agg) : agg \in SectionTargets }
    /\ predictions = Some(SectionPredictions)
    /\ openai_env \in OpenAIEnvs
    /\ historical_df = None
    /\ category_targets = None
    /\ filtered_historical = None
    /\ brand_sku_percentages = None
    /\ message = "none"
    /\ brand_data = None
    /\ ai_insights = None
    /\ analysis_data = None
    /\ insights_message = "none"
    /\ NoFiles

NextSection == DisplayInsights \/ \E outcome \in AIOutcomes : RequestAI(outcome)

SpecSection == InitSection /\ [][NextSection]_vars

\* both files loaded; the sample tables against target files of many shapes
InitInsights ==
    /\ historical_df \in { Some(t) : t \in SampleTables }
    /\ category_targets \in { Some(m) : m \in AggregationTargets \cup DistributionTargets }
    /\ NoRun
    /\ NoFiles
    /\ openai_env = "not_installed"

NextInsights == Generate \/ DisplayInsights

SpecInsights == InitInsights /\ [][NextInsights]_vars

(***************************************************************************)
(* Vocabulary of the properties, stated on the inputs and the results      *)
(* rather than through the operators above.                                *)
(***************************************************************************)
\* token occurs in text, letters compared without regard to case
ContainsCI(text, token) ==
    \E i \in 0..(Len(text) - Len(token)) :
        \A j \in 1..Len(token) : LowerChar(text[i + j]) = token[j]

Range(seq) == { seq[i] : i \in 1..Len(seq) }

Items == Val(category_targets)
Agg == Val(brand_targets_agg)
Preds == Val(predictions)
Shares == Val(brand_sku_percentages)
Filtered == Val(filtered_historical)

\* the run has mapped the categories
Mapped == IsSome(brand_targets_agg)
\* the run has gone on to predict from a non-empty table
Predicted == Mapped /\ IsSome(predictions) /\ IsSome(brand_sku_percentages)

\* the brands whose category list holds the category
BrandsListing(category) == { b \in DOMAIN Agg : category \in Range(Agg[b].categories) }

\* the sum of the values of a function
RECURSIVE SumFn(_)
SumFn(f) ==
    IF DOMAIN f = {} THEN 0
    ELSE LET x == CHOOSE y \in DOMAIN f : TRUE
         IN  f[x] + SumFn([y \in DOMAIN f \ {x} |-> f[y]])

\* the sum of the values of a function whose values are fractions
RECURSIVE FracSumFn(_)
FracSumFn(f) ==
    IF DOMAIN f = {} THEN <<0, 1>>
    ELSE LET x == CHOOSE y \in DOMAIN f : TRUE
         IN  FracAdd(f[x], FracSumFn([y \in DOMAIN f \ {x} |-> f[y]]))

\* the positions of the target rows that carry the manufacturing marker
MfgItems == { i \in 1..Len(Items) : ContainsCI(Items[i].Category, T_mfg) }

\* sums of the two targets over the rows at the given positions
MaySum(I) == SumFn([i \in I |-> Items[i].mayTarget])
W1Sum(I) == SumFn([i \in I |-> Items[i].w1Target])

\* the rows whose category the brand lists
ListedItems(b) == { i \in 1..Len(Items) : Items[i].Category \in Range(Agg[b].categories) }

(***************************************************************************)
(* C3.  Classifier totality on MFG: every category whose text contains     *)
(* 'mfg', in any letter case, is listed by exactly one brand of the        *)
(* BrandTarget map, once, and that brand's targets are the sums of the     *)
(* targets of the categories it lists; no such category is dropped.        *)
(***************************************************************************)
C3_ClassifierTotality ==
    Mapped =>
        \A i \in MfgItems :
            /\ Cardinality(BrandsListing(Items[i].Category)) = 1
            /\ \A b \in BrandsListing(Items[i].Category) :
                  /\ Cardinality({ k \in 1..Len(Agg[b].categories) :
                                     Agg[b].categories[k] = Items[i].Category }) = 1
                  /\ Agg[b].mayTarget = MaySum(ListedItems(b))
                  /\ Agg[b].w1Target = W1Sum(ListedItems(b))

\* a run has mapped a category that spells the marker other than 'MFG' and
\* matches no brand or product token
C3_Witness ==
    /\ Mapped
    /\ \E i \in MfgItems :
          /\ ~Contains(Items[i].Category, <<"M","F","G">>)
          /\ BrandsListing(Items[i].Category) # {}
          /\ BrandsListing(Items[i].Category) \cap
                 {SCG_PI, SCG_FT, SCG_BV, MIZU_PI, MIZU_FT, ICON_PI} = {}

(***************************************************************************)
(* C4.  Classifier exclusion: a category whose text does not contain 'mfg' *)
(* in any letter case is listed by no brand, and the targets of all brands *)
(* together are the targets of the categories that do contain it, whatever *)
(* brand or product tokens the excluded category contains.                 *)
(***************************************************************************)
C4_ClassifierExclusion ==
    Mapped =>
        /\ \A i \in (1..Len(Items)) \ MfgItems : BrandsListing(Items[i].Category) = {}
        /\ SumFn([b \in DOMAIN Agg |-> Agg[b].mayTarget]) = MaySum(MfgItems)
        /\ SumFn([b \in DOMAIN Agg |-> Agg[b].w1Target]) = W1Sum(MfgItems)

\* a run has skipped a category that names a brand and a product but has no
\* marker
C4_Witness ==
    /\ Mapped
    /\ message = "no_brands"
    /\ \E i \in (1..Len(Items)) \ MfgItems :
          /\ ContainsCI(Items[i].Category, T_scg)
          /\ ContainsCI(Items[i].Category, T_pipe)

(***************************************************************************)
(* C5.  Classifier rule order: the brand that lists an MFG category is the *)
(* one the first matching rule names, tokens compared without regard to    *)
(* case: 'scg' with 'pipe' or 'conduit' gives SCG-PI, else with 'fitting'  *)
(* SCG-FT, else with 'valve' SCG-BV, else SCG-PI; without 'scg', 'mizu'    *)
(* with 'fitting' gives MIZU-FT, else MIZU-PI; without both, 'icon' gives  *)
(* ICON-PI; without the three, 'pipe' gives SCG-PI, else 'fitting' SCG-FT, *)
(* else 'valve' SCG-BV.                                                    *)
(***************************************************************************)
C5_RuleOrder ==
    Mapped =>
        \A i \in MfgItems :
            LET c == Items[i].Category
                scg == ContainsCI(c, T_scg)
                mizu == ContainsCI(c, T_mizu)
                icon == ContainsCI(c, T_icon)
                pipe == ContainsCI(c, T_pipe)
                conduit == ContainsCI(c, T_conduit)
                fitting == ContainsCI(c, T_fitting)
                valve == ContainsCI(c, T_valve)
                Is(b) == BrandsListing(c) = {b}
            IN  /\ (scg /\ (pipe \/ conduit)) => Is(SCG_PI)
                /\ (scg /\ ~pipe /\ ~conduit /\ fitting) => Is(SCG_FT)
                /\ (scg /\ ~pipe /\ ~conduit /\ ~fitting /\ valve) => Is(SCG_BV)
                /\ (scg /\ ~pipe /\ ~conduit /\ ~fitting /\ ~valve) => Is(SCG_PI)
                /\ (~scg /\ mizu /\ fitting) => Is(MIZU_FT)
                /\ (~scg /\ mizu /\ ~fitting) => Is(MIZU_PI)
                /\ (~scg /\ ~mizu /\ icon) => Is(ICON_PI)
                /\ (~scg /\ ~mizu /\ ~icon /\ pipe) => Is(SCG_PI)
                /\ (~scg /\ ~mizu /\ ~icon /\ ~pipe /\ fitting) => Is(SCG_FT)
                /\ (~scg /\ ~mizu /\ ~icon /\ ~pipe /\ ~fitting /\ valve) => Is(SCG_BV)

\* a run has mapped a category with both 'scg' and 'mizu' by the scg rule
C5_Witness ==
    /\ Mapped
    /\ \E i \in MfgItems :
          /\ ContainsCI(Items[i].Category, T_scg)
          /\ ContainsCI(Items[i].Category, T_mizu)
          /\ BrandsListing(Items[i].Category) = {SCG_PI}

(***************************************************************************)
(* C6.  Classifier fallback: an MFG category that matches none of the      *)
(* brand or product tokens gets the brand code that is its text in upper   *)
(* case with spaces replaced by hyphens and parentheses stripped, so the   *)
(* code holds neither '(' nor ')'.                                         *)
(***************************************************************************)
NotParenthesis(ch) == ch \notin {"(", ")"}

C6_FallbackStripsParentheses ==
    Mapped =>
        \A i \in MfgItems :
            LET c == Items[i].Category
                unmatched == \A t \in {T_scg, T_mizu, T_icon, T_pipe, T_fitting, T_valve} :
                                 ~ContainsCI(c, t)
                code == SelectSeq([k \in 1..Len(c) |->
                                      IF c[k] = " " THEN "-" ELSE UpperChar(c[k])],
                                  NotParenthesis)
            IN  unmatched =>
                    /\ BrandsListing(c) = {code}
                    /\ \A b \in BrandsListing(c) : \A k \in 1..Len(b) : NotParenthesis(b[k])

(***************************************************************************)
(* C7.  Target aggregation: after map_categories_to_brands every brand     *)
(* lists exactly the MFG categories classified to it, each once, in the    *)
(* order the target file gives them; its mayTarget and w1Target are the    *)
(* sums of targetA and targetB over those categories; and the mayTarget of *)
(* all brands together is the targetA of all MFG categories together.      *)
(***************************************************************************)
\* the names at the given positions of the target rows, in row order
RECURSIVE NamesInOrder(_, _)
NamesInOrder(items, I) ==
    IF items = <<>> THEN <<>>
    ELSE NamesInOrder(SubSeq(items, 1, Len(items) - 1), I)
            \o (IF Len(items) \in I THEN <<items[Len(items)].Category>> ELSE <<>>)

C7_TargetAggregation ==
    Mapped =>
        /\ \A b \in DOMAIN Agg :
              LET mine == { i \in MfgItems : MatchingBrand(Items[i].Category) = b }
              IN  /\ mine # {}
                  /\ Agg[b].categories = NamesInOrder(Items, mine)
                  /\ Agg[b].mayTarget = MaySum(mine)
                  /\ Agg[b].w1Target = W1Sum(mine)
        /\ \A i \in MfgItems : MatchingBrand(Items[i].Category) \in DOMAIN Agg
        /\ SumFn([b \in DOMAIN Agg |-> Agg[b].mayTarget]) = MaySum(MfgItems)

\* a run has summed two categories into one brand, the later row of the file
\* listed second, beside a category of another brand or none
C7_Witness ==
    /\ Mapped
    /\ \E b \in DOMAIN Agg :
          /\ Len(Agg[b].categories) = 2
          /\ Agg[b].categories[1] # Agg[b].categories[2]
          /\ Agg[b].mayTarget = 320

(***************************************************************************)
(* Historical tonnage read off the table the run predicted from.           *)
(***************************************************************************)
RowsOf(df, b) == { i \in 1..Len(df.rows) : df.rows[i].BRANDPRODUCT = b }
CodesOf(df, b) == { df.rows[i].ItemCode : i \in RowsOf(df, b) }
BrandTon(df, b) == SumFn([i \in RowsOf(df, b) |-> df.rows[i].TON])
CodeTon(df, b, c) ==
    SumFn([i \in { k \in RowsOf(df, b) : df.rows[k].ItemCode = c } |-> df.rows[i].TON])

\* the SKU's share of its brand's historical tonnage
CodeShare(df, b, c) == Frac(CodeTon(df, b, c), BrandTon(df, b))

OneThousandth == <<1, 1000>>

\* the predicted tonnage of a distribution, summed over its entries
TotalTonnage(dist) == FracSumFn([c \in DOMAIN dist |-> dist[c].tonnage])

(***************************************************************************)
(* C1.  Distribution conservation: for every brand of the Prediction map   *)
(* whose historical SKUs all have a share of at least 0.1%, the predicted  *)
(* tonnage of mayDistribution sums to the brand's mayTarget and that of    *)
(* w1Distribution to its w1Target, for any historical table ingestion      *)
(* accepts, also one where a SKU code occurs under several item names.     *)
(***************************************************************************)
C1_DistributionConservation ==
    Predicted =>
        \A b \in DOMAIN Preds :
            (\A k \in 1..Len(Shares[b]) : FracGE(Shares[b][k].Percentage, OneThousandth)) =>
                /\ TotalTonnage(Preds[b].mayDistribution) = FracOfInt(Preds[b].mayTarget)
                /\ TotalTonnage(Preds[b].w1Distribution) = FracOfInt(Preds[b].w1Target)

(***************************************************************************)
(* C2.  Percentage closure: for every brand with at least one historical   *)
(* SKU row, the percentages of its rows (summed tonnage of the row over    *)
(* the brand's total tonnage) sum to exactly 1, and each lies in [0, 1].   *)
(***************************************************************************)
C2_PercentageClosure ==
    IsSome(brand_sku_percentages) =>
        \A b \in DOMAIN Shares :
            /\ Len(Shares[b]) >= 1
            /\ FracSumFn([k \in 1..Len(Shares[b]) |-> Shares[b][k].Percentage]) = <<1, 1>>
            /\ \A k \in 1..Len(Shares[b]) :
                  /\ FracGE(Shares[b][k].Percentage, <<0, 1>>)
                  /\ FracGE(<<1, 1>>, Shares[b][k].Percentage)
                  /\ Shares[b][k].Percentage = Frac(Shares[b][k].TON, BrandTon(Filtered, b))

\* a run has computed the shares of a brand with two rows of unequal share
C2_Witness ==
    /\ IsSome(brand_sku_percentages)
    /\ \E b \in DOMAIN Shares :
          /\ Len(Shares[b]) = 2
          /\ Shares[b][1].Percentage # Shares[b][2].Percentage

(***************************************************************************)
(* C8.  SKU inclusion threshold: for a brand with historical SKUs, a SKU   *)
(* is in mayDistribution if and only if its share of the brand's           *)
(* historical tonnage is at least 0.001, w1Distribution has the same keys, *)
(* and the SKU's predicted tonnage is mayTarget times its share and        *)
(* w1Target times its share; a SKU with a smaller share is in neither.     *)
(***************************************************************************)
C8_InclusionThreshold ==
    Predicted =>
        \A b \in DOMAIN Preds :
            /\ DOMAIN Preds[b].mayDistribution = DOMAIN Preds[b].w1Distribution
            /\ DOMAIN Preds[b].mayDistribution \subseteq CodesOf(Filtered, b)
            /\ \A c \in CodesOf(Filtered, b) :
                  LET share == CodeShare(Filtered, b, c)
                  IN  /\ c \in DOMAIN Preds[b].mayDistribution <=> FracGE(share, OneThousandth)
                      /\ c \in DOMAIN Preds[b].mayDistribution =>
                            /\ Preds[b].mayDistribution[c].tonnage =
                                   FracMul(Preds[b].mayTarget, share)
                            /\ Preds[b].w1Distribution[c].tonnage =
                                   FracMul(Preds[b].w1Target, share)

(***************************************************************************)
(* C9.  Zero-historical handling: a brand produced from the target file    *)
(* whose code is no BRANDPRODUCT value of the historical table gets a      *)
(* BrandTarget with historicalTonnage 0 and the mayTarget the file gives,  *)
(* has no entry in the Prediction map, and the run does not raise.         *)
(***************************************************************************)
C9_ZeroHistorical ==
    Mapped =>
        \A b \in DOMAIN Agg :
            RowsOf(Val(historical_df), b) = {} =>
                /\ Agg[b].historicalTonnage = 0
                /\ Agg[b].mayTarget = MaySum(ListedItems(b))
                /\ IsSome(predictions) /\ b \notin DOMAIN Preds
                /\ message \in {"success", "no_predictions"}

\* a run has mapped a brand the historical table does not name, beside a
\* brand it predicted for
C9_Witness ==
    /\ Mapped
    /\ message = "success"
    /\ \E b \in DOMAIN Agg :
          /\ RowsOf(Val(historical_df), b) = {}
          /\ Agg[b].mayTarget = 120
          /\ DOMAIN Preds # {}

(***************************************************************************)
(* C10.  Per-brand isolation of missing history: when a brand of the       *)
(* BrandTarget map has no historical SKU rows, every other brand that has  *)
(* such rows still gets its Prediction entry, the very entry it gets when  *)
(* the categories of the history-less brand are absent from the targets.   *)
(***************************************************************************)
C10_MissingHistoryIsolation ==
    (Mapped /\ IsSome(predictions)) =>
        \A h \in DOMAIN Agg :
            RowsOf(Filtered, h) = {} =>
                LET Kept(item) == item.Category \notin Range(Agg[h].categories)
                    without == SelectSeq(Items, Kept)
                    alone == predict_sku_distribution(
                                 map_categories_to_brands(without, Filtered), Filtered)
                IN  \A b \in DOMAIN Agg :
                        RowsOf(Filtered, b) # {} =>
                            /\ b \in DOMAIN Preds
                            /\ b \in DOMAIN alone
                            /\ Preds[b] = alone[b]

\* a run has predicted a distribution for one brand while another brand of
\* the targets had no historical rows
C10_Witness ==
    /\ Mapped
    /\ IsSome(predictions)
    /\ \E h \in DOMAIN Agg : RowsOf(Filtered, h) = {}
    /\ \E b \in DOMAIN Agg :
          /\ RowsOf(Filtered, b) # {}
          /\ b \in DOMAIN Preds
          /\ Cardinality(DOMAIN Preds[b].mayDistribution) = 2

(***************************************************************************)
(* C11.  Determinism: a run of the pipeline in a session that has already  *)
(* run on the same historical table and category targets leaves the        *)
(* BrandTarget map and the Prediction map exactly as the earlier run left  *)
(* them, although the earlier run has converted the date column of the     *)
(* stored table in place.                                                  *)
(***************************************************************************)
C11_Determinism ==
    [][Mapped => /\ brand_targets_agg' = brand_targets_agg
                 /\ predictions' = predictions]_vars

\* a session that has run on a table whose date column the run converted,
\* where the month filter dropped rows and brands were predicted
C11_Witness ==
    /\ Mapped
    /\ IsSome(predictions)
    /\ DOMAIN Preds # {}
    /\ Val(historical_df).dateCol
    /\ \E i \in 1..Len(Val(historical_df).rows) :
           Val(historical_df).rows[i].Date = "Timestamp(2024-04-10)"
    /\ Len(Filtered.rows) < Len(Val(historical_df).rows)

BrandData == Val(brand_data)

(***************************************************************************)
(* C12.  Growth ratio: in the brand analysis table every brand's growth    *)
(* ratio is mayTarget / historicalTonnage when historicalTonnage > 0 and   *)
(* the sentinel 5.0 when historicalTonnage is 0, so that no brand without  *)
(* historical tonnage is shown with a growth ratio of 0.                   *)
(***************************************************************************)
C12_GrowthRatio ==
    IsSome(brand_data) =>
        \A b \in DOMAIN BrandData :
            /\ Agg[b].historicalTonnage > 0 =>
                   BrandData[b].growth[1] * Agg[b].historicalTonnage
                       = Agg[b].mayTarget * BrandData[b].growth[2]
            /\ Agg[b].historicalTonnage = 0 => BrandData[b].growth = <<5, 1>>

(***************************************************************************)
(* C13.  Risk category: a brand's risk is High when its growth ratio is    *)
(* above 3, Medium when it is above 1.5 and at most 3, Low otherwise; a    *)
(* brand with a target and no historical tonnage is High, and a brand      *)
(* whose target is exactly twice its historical tonnage is Medium.         *)
(***************************************************************************)
C13_RiskCategory ==
    IsSome(brand_data) =>
        \A b \in DOMAIN BrandData :
            LET g == BrandData[b].growth
                risk == BrandData[b].risk
            IN  /\ risk = "High" <=> g[1] > 3 * g[2]
                /\ risk = "Medium" <=> (2 * g[1] > 3 * g[2] /\ g[1] <= 3 * g[2])
                /\ risk = "Low" <=> 2 * g[1] <= 3 * g[2]
                /\ (Agg[b].historicalTonnage = 0 /\ Agg[b].mayTarget > 0) => risk = "High"
                /\ (Agg[b].historicalTonnage > 0
                      /\ Agg[b].mayTarget = 2 * Agg[b].historicalTonnage) => risk = "Medium"

\* the uploaded historical sheet, the table made of it, and whether the
\* script has processed the sheet
Sheet == Val(historical_file)
Table == Val(historical_df)
HistoricalProcessed == historical_message # "none"

(***************************************************************************)
(* C14.  No empty historical table: process_historical_file never returns  *)
(* a table with zero records; when the tonnage, brand and SKU-code filters *)
(* discard every row it returns no table.                                  *)
(***************************************************************************)
C14_NoEmptyTable ==
    (HistoricalProcessed /\ IsSome(historical_df)) => Len(Table.rows) > 0

\* the tonnage cells that are positive numbers, with the number each denotes
PositiveTonCells == { <<<<"8","0">>, 80>>, <<<<"1",",","0","0","0">>, 1000>> }

\* the rows of the sheet whose tonnage cell (third column) is a positive number
PositiveTonRows == { i \in 1..Len(Sheet) : \E p \in PositiveTonCells : Sheet[i][3] = p[1] }

Trimmed(text) == text = <<>> \/ (text[1] # " " /\ text[Len(text)] # " ")

LabelsIn(row) ==
    Cardinality({ k \in 1..Len(RequiredCols) :
                    \E j \in 1..Len(row) : ContainsCI(row[j], Lower(RequiredCols[k])) })

\* the header offsets of the sheet that qualify
QualifyingOffsets == { p \in 0..2 : p < Len(Sheet) /\ LabelsIn(Sheet[p + 1]) >= 3 }

(***************************************************************************)
(* C16.  Header discovery: of the header offsets 0, 1, 2 the first one at  *)
(* which at least 3 of the 4 required labels occur in some header cell     *)
(* (case-insensitive substring) is the one used, whatever later offsets    *)
(* hold, and the table is read from the rows below it; when no offset      *)
(* qualifies, no table is returned.                                        *)
(***************************************************************************)
C16_HeaderDiscovery ==
    HistoricalProcessed =>
        IF QualifyingOffsets = {}
        THEN header_pos = None /\ historical_df = None
        ELSE LET first == CHOOSE p \in QualifyingOffsets : \A q \in QualifyingOffsets : p <= q
             IN  /\ header_pos = Some(first)
                 /\ IsSome(historical_df) => Len(Table.rows) <= Len(Sheet) - (first + 1)

\* two offsets qualify and the earlier one, not the first of the sheet, is used
C16_Witness ==
    /\ HistoricalProcessed
    /\ QualifyingOffsets = {1, 2}
    /\ header_pos = Some(1)

\* the uploaded target sheet, and whether the script has processed it
TargetSheet == Val(target_file)
TargetProcessed == target_message # "none"

\* the rows of the target sheet, counted from 1: a row whose first cell
\* holds a name, and a row whose first cell holds 'total' in any letter case
NamedRow(i) ==
    /\ TargetSheet[i][1] # NaN
    /\ \E j \in 1..Len(TargetSheet[i][1]) : TargetSheet[i][1][j] # " "
    /\ Strip(TargetSheet[i][1]) # <<"n","a","n">>
TotalRow(i) == TargetSheet[i][1] # NaN /\ ContainsCI(TargetSheet[i][1], T_total)

\* the named rows from the third row of the sheet on, before the first
\* total row found there
CategoryRows ==
    { i \in 3..Len(TargetSheet) : NamedRow(i) /\ \A k \in 3..i : ~TotalRow(k) }

(***************************************************************************)
(* C17.  Target extraction failures: process_target_file returns no        *)
(* mapping for a sheet of fewer than 3 rows and for a sheet from which no  *)
(* category row is extracted; a mapping it returns is never empty.         *)
(***************************************************************************)
C17_ExtractionFailures ==
    TargetProcessed =>
        /\ Len(TargetSheet) < 3 => category_targets = None
        /\ (Len(TargetSheet) >= 3 /\ CategoryRows = {}) => category_targets = None
        /\ IsSome(category_targets) => Len(Items) >= 1

\* a sheet of three rows or more, with rows after the headings, none of
\* which gives a category
C17_Witness ==
    /\ TargetProcessed
    /\ Len(TargetSheet) >= 4
    /\ CategoryRows = {}
    /\ category_targets = None
    /\ target_message = "no_category_data"

\* the rows scanned for the period headings: the first three of the sheet
HeaderScanRows == 1..3

\* the rows that may give a category: below the rows scanned for headings,
\* named, with no total row at or above them
DataRangeRows ==
    { i \in 1..Len(TargetSheet) :
        /\ i \notin HeaderScanRows
        /\ NamedRow(i)
        /\ \A k \in 1..i : ~TotalRow(k) }

(***************************************************************************)
(* C18.  Target data range: every category of the mapping is the name in   *)
(* a row that lies below the rows scanned for the period headings and      *)
(* above the first row whose first cell contains 'total'; no scanned       *)
(* heading row and no row at or after the total row gives a category, and  *)
(* rows with an empty or 'nan' name are skipped.                           *)
(***************************************************************************)
C18_DataRange ==
    (TargetProcessed /\ IsSome(category_targets)) =>
        \A k \in 1..Len(Items) :
            \E i \in DataRangeRows : Strip(TargetSheet[i][1]) = Items[k].Category

(***************************************************************************)
(* C19.  Period columns are separate: after the column detection,          *)
(* fallback included, the index of the period-A column differs from the    *)
(* index of the period-B column.                                           *)
(***************************************************************************)
C19_SeparateColumns ==
    IsSome(target_cols) => Val(target_cols)[1] # Val(target_cols)[2]

(***************************************************************************)
(* C20.  BrandTarget non-negativity: for every brand of the BrandTarget    *)
(* map made from a target sheet and a historical table the parsers         *)
(* accept, mayTarget >= 0, w1Target >= 0 and historicalTonnage >= 0.       *)
(***************************************************************************)
C20_NonNegativeTargets ==
    (TargetProcessed /\ Mapped) =>
        \A b \in DOMAIN Agg :
            /\ Agg[b].mayTarget >= 0
            /\ Agg[b].w1Target >= 0
            /\ Agg[b].historicalTonnage >= 0

(***************************************************************************)
(* C22.  No brands produced: when no category of the target mapping        *)
(* carries the manufacturing marker, the BrandTarget map of the run is     *)
(* empty, the run reports "no brand mappings" as its own message, and      *)
(* predict_sku_distribution is not run (no SKU percentages are computed);  *)
(* the message is given in no other case.                                  *)
(***************************************************************************)
C22_NoBrandsProduced ==
    Mapped =>
        /\ MfgItems = {} =>
               /\ DOMAIN Agg = {}
               /\ message = "no_brands"
               /\ brand_sku_percentages = None
        /\ message = "no_brands" => MfgItems = {}

\* a run on a parsed historical table and a target mapping whose only
\* category is a trading one
C22_Witness ==
    /\ Mapped
    /\ Len(Filtered.rows) > 0
    /\ Len(Items) = 1
    /\ Items[1].Category = C_Trading
    /\ DOMAIN Agg = {}
    /\ message = "no_brands"

(***************************************************************************)
(* C27.  One distribution entry per SKU code: for every brand of the       *)
(* Prediction map and every SKU code of its mayDistribution, the entry's   *)
(* historicalTonnage is the total tonnage of the brand's rows with that    *)
(* code and its percentage is that total over the brand's total, also when *)
(* the code occurs under several item names.                               *)
(***************************************************************************)
C27_OneEntryPerCode ==
    Predicted =>
        \A b \in DOMAIN Preds :
            \A c \in DOMAIN Preds[b].mayDistribution :
                /\ Preds[b].mayDistribution[c].historicalTonnage = CodeTon(Filtered, b, c)
                /\ Preds[b].mayDistribution[c].percentage = CodeShare(Filtered, b, c)

(***************************************************************************)
(* C28.  Two historical aggregations agree: for every brand of the         *)
(* Prediction map, the historicalTonnage carried from                      *)
(* map_categories_to_brands equals the brand total that is the denominator *)
(* of the brand's SKU percentages in predict_sku_distribution.             *)
(***************************************************************************)
C28_AggregationsAgree ==
    Predicted =>
        \A b \in DOMAIN Preds :
            /\ Preds[b].historicalTonnage = Agg[b].historicalTonnage
            /\ \A k \in 1..Len(Shares[b]) :
                   Shares[b][k].TotalBrandTon = Preds[b].historicalTonnage

\* a predicted brand whose total is made of two rows, next to another brand
C28_Witness ==
    /\ Predicted
    /\ \E b \in DOMAIN Preds :
          /\ Len(Shares[b]) = 2
          /\ Preds[b].historicalTonnage = 1999
    /\ Cardinality(DOMAIN Agg) = 2

(***************************************************************************)
(* C29.  SKU counts agree: for every brand of the Prediction map, the      *)
(* skuCount stored by predict_sku_distribution is the number of entries of *)
(* its mayDistribution, the count the brand analysis table shows.          *)
(***************************************************************************)
C29_SkuCountsAgree ==
    Predicted =>
        \A b \in DOMAIN Preds :
            Preds[b].skuCount = Cardinality(DOMAIN Preds[b].mayDistribution)


\* C24: a Generate run leaves the stored historical table and the stored
\* category targets as they were before the run.
C24_InputsReadOnly ==
    [][Generate => /\ historical_df' = historical_df
                   /\ category_targets' = category_targets]_vars


\* C26: every brand of the stored predictions is a brand of the stored brand
\* targets with the same two targets; after a Generate run that produced no
\* brand targets no predictions are stored.
C26_PredictionsFollowTargets ==
    /\ (IsSome(predictions) /\ IsSome(brand_targets_agg)) =>
           \A brand \in DOMAIN Preds :
               /\ brand \in DOMAIN Agg
               /\ Preds[brand].mayTarget = Agg[brand].mayTarget
               /\ Preds[brand].w1Target = Agg[brand].w1Target
    /\ message = "no_brands" => (predictions = None \/ Preds = <<>>)


\* C30: the insights attached to the downloadable analysis answer a prompt
\* written from the brand targets and predictions stored now.
C30_InsightsAreCurrent ==
    (IsSome(analysis_data) /\ IsSome(Val(analysis_data).ai_insights)) =>
        Val(Val(analysis_data).ai_insights).brand_details = BrandDetails(Agg, Preds)


HistoricalFailures == { "no_valid_headers", "missing_columns", "error" }
TargetFailures == { "insufficient_data", "no_category_data" }

\* C23: Generate runs only when the last processing of each file gave a
\* table; after a file is rejected its stored value is None.
C23_FailuresBlockGenerate ==
    [][/\ ClickGenerate => /\ historical_message = "data_summary"
                           /\ target_message = "extracted"
       /\ historical_message' \in HistoricalFailures => historical_df' = None
       /\ target_message' \in TargetFailures => category_targets' = None]_vars

\* a file is rejected after an earlier one had been loaded and used
C23_Witness ==
    /\ historical_message = "no_valid_headers"
    /\ historical_df = None
    /\ IsSome(predictions)
    /\ target_message = "extracted"


\* the download data and the brand table are on screen and carry the totals
\* of the stored brand targets, a row for each of its brands and the four
\* recommendations
SummaryProduced ==
    /\ IsSome(analysis_data)
    /\ brand_data = Some(Val(analysis_data).brand_analysis)
    /\ Val(analysis_data).summary.total_may_target
           = SumFn([b \in DOMAIN Agg |-> Agg[b].mayTarget])
    /\ Val(analysis_data).summary.total_historical
           = SumFn([b \in DOMAIN Agg |-> Agg[b].historicalTonnage])
    /\ Val(analysis_data).summary.brand_count = Cardinality(DOMAIN Agg)
    /\ DOMAIN Val(analysis_data).brand_analysis = DOMAIN Agg
    /\ \A b \in DOMAIN Agg :
           /\ Val(analysis_data).brand_analysis[b].mayTarget = Agg[b].mayTarget
           /\ Val(analysis_data).brand_analysis[b].historical = Agg[b].historicalTonnage
           /\ Val(analysis_data).brand_analysis[b].risk \in {"High", "Medium", "Low"}
    /\ Len(Val(analysis_data).recommendations) = 4

\* C25: a run that shows the section without the AI service, and a run
\* with an AI request whatever its outcome, produce the summary, the brand
\* table and the recommendations; the AI request leaves the brand targets
\* and the predictions as they were.
C25_AIOptional ==
    [][/\ (\E outcome \in AIOutcomes : RequestAI(outcome)) =>
              /\ brand_targets_agg' = brand_targets_agg
              /\ predictions' = predictions
              /\ SummaryProduced'
       /\ (openai_env # "ready" /\ SectionShown(brand_targets_agg', predictions')) =>
              SummaryProduced']_vars

\* the AI request has failed and the analysis of two brands is on screen
C25_Witness ==
    /\ insights_message = "ai_analysis_error"
    /\ ai_insights = None
    /\ IsSome(analysis_data)
    /\ Val(analysis_data).summary.brand_count = 2


====
